---------------------------- MODULE Spec2Model ----------------------------
(***************************************************************************)
(* Model of the analytics core of src/Main_code.py: smooth_diameter,       *)
(* force_smooth_diameter, auto_offset_labels, compute_scale and the        *)
(* stages of predict_time_series: recording, filtering, smoothing and      *)
(* write-back, trend fit, phase and peak lines, box-plot summary, csv.     *)
(*                                                                         *)
(* Numbers are exact rationals [n, d] in lowest terms with d > 0; the      *)
(* missing value (NaN / None) is the record with d = 0.  Python positions  *)
(* are 0-based, sequences here are 1-based: Python index i is k = i + 1.   *)
(***************************************************************************)
EXTENDS Integers, Sequences, FiniteSets, TLC

VARIABLES
    \* smooth_diameter
    sd_pc,      \* "start", "marked", "interpolated", "done"
    sd_input,   \* the average_diameter column handed in
    sd_window, sd_z,
    sd_values,  \* the float array `values` (line 71), marked in place
    sd_ser      \* the Series `ser` (lines 86-88)

smoothVars == <<sd_pc, sd_input, sd_window, sd_z, sd_values, sd_ser>>

VARIABLES
    \* force_smooth_diameter
    fs_pc,        \* "start", "done", "KeyError"
    fs_index,     \* the row labels of the Series handed in, by position
    fs_dates,     \* the dates, as day numbers, by position
    fs_cut,       \* cutoff_str as a day number
    fs_input,     \* smoothed_vals
    fs_max_drop,
    fs_clamped,   \* forced_vals after the loop of lines 113-120
    fs_forced     \* forced_vals as returned

forceVars == <<fs_pc, fs_index, fs_dates, fs_cut, fs_input, fs_max_drop,
               fs_clamped, fs_forced>>

VARIABLES
    \* auto_offset_labels
    al_pc,            \* "start", "done"
    al_positions, al_min_gap, al_offset_left, al_offset_right,
    al_new_positions

labelVars == <<al_pc, al_positions, al_min_gap, al_offset_left,
               al_offset_right, al_new_positions>>

VARIABLES
    \* predict_time_series
    pt_pc,              \* the stage reached, "returned", "aborted" or "done"
    pt_records,         \* `records`: one [date, average_diameter] per image
    pt_flags,           \* show_curves, show_trend, show_peak_date,
                        \* show_phase_lines
    pt_df_filtered,     \* rows [label, date, average_diameter], date-sorted
    pt_smoothed,        \* df_filtered["smoothed_diameter"]
    pt_f_smoothed,      \* df_filtered["f_smoothed_diameter"]
    pt_df_columns,      \* the columns smoothed_diameter, f_smoothed_diameter
                        \* of df (lines 560-561), one row per image, or <<>>
    pt_fit,             \* how the trend stage ended: "pending", "skipped",
                        \* "converged", "not_converged", "TypeError"
    pt_fitted_params,   \* None, or the terms [B1, C1, B2, C2] of popt
    pt_divisors,        \* the steepness values lines 744-748 divided by
    pt_phase_lines,     \* dates of the gray lines drawn (line 703)
    pt_peak_line,       \* date of the red line drawn (line 720), or None
    pt_line_positions,  \* line_positions, in the order appended
    pt_peak_label,      \* pk_date of line 752, or None
    pt_new_positions,   \* what auto_offset_labels returned
    pt_written,         \* the files written
    pt_error            \* the exception that ended the run, or "none"

pipeVars == <<pt_pc, pt_records, pt_flags, pt_df_filtered, pt_smoothed,
              pt_f_smoothed, pt_df_columns, pt_fit, pt_fitted_params,
              pt_divisors,
              pt_phase_lines, pt_peak_line, pt_line_positions, pt_peak_label,
              pt_new_positions, pt_written, pt_error>>

VARIABLES
    \* load_scale_points, compute_scale and the recording loop and box-plot
    \* summary of predict_time_series
    rc_pc,          \* "recording", "recorded", "summarized", "returned",
                    \* "aborted"
    rc_loaded,      \* the calibration table as load_scale_points returned it
    rc_scale_data,  \* the caller's table scale_data as it is now
    rc_images,      \* the images, sorted: [filename, widths], widths the
                    \* x2 - x1 of the boxes the detector returns
    rc_records,     \* `records` (line 503)
    rc_summary      \* summary_records (line 875), or <<>>

recordVars == <<rc_pc, rc_loaded, rc_scale_data, rc_images, rc_records,
                rc_summary>>

vars == <<smoothVars, forceVars, labelVars, pipeVars, recordVars>>

-----------------------------------------------------------------------------
(* Bounds of the model *)

\* longest series handed to smooth_diameter in the exhaustive part of Init
MaxLen == 4
\* largest measurement value in the exhaustive part of Init
MaxVal == 1
\* largest rolling window size tried
MaxWindow == 3
\* longest series handed to force_smooth_diameter
FsMaxLen == 5
\* longest series whose dates are tried in every order
FsMaxUnsorted == 4
\* most rows of df filtered out ahead of the first row of the series
MaxLead == 1
\* most positions handed to auto_offset_labels
MaxLabels == 5
\* the positions tried are 0, 1/2, 1, ..., GridSteps/2, and 10
GridSteps == 5
\* most images of a run whose records are tried exhaustively
PtMaxImages == 3
\* most images of a run of dated, measured images on consecutive days
PtMaxSeries == 7
\* most images of a run whose detections are recorded and summarized
RcMaxImages == 3

-----------------------------------------------------------------------------
(* Exact rational arithmetic *)

Abs(x) == IF x < 0 THEN -x ELSE x

Max(a, b) == IF a >= b THEN a ELSE b

Min(a, b) == IF a <= b THEN a ELSE b

RECURSIVE GCD(_, _)
GCD(a, b) == IF b = 0 THEN a ELSE GCD(b, a % b)

Rat(n, d) ==
    LET g == GCD(Abs(n), Abs(d))
        s == IF d < 0 THEN -1 ELSE 1
    IN  [n |-> (s * n) \div g, d |-> (s * d) \div g]

NaN == [n |-> 0, d |-> 0]

IsNaN(x) == x.d = 0

RAdd(a, b) == Rat(a.n * b.d + b.n * a.d, a.d * b.d)

RSub(a, b) == Rat(a.n * b.d - b.n * a.d, a.d * b.d)

RMul(a, b) == Rat(a.n * b.n, a.d * b.d)

RDiv(a, b) == Rat(a.n * b.d, a.d * b.n)

RLt(a, b) == a.n * b.d < b.n * a.d

RLe(a, b) == a.n * b.d <= b.n * a.d

RAbs(a) == [n |-> Abs(a.n), d |-> a.d]

Zero == Rat(0, 1)

-----------------------------------------------------------------------------
(* smooth_diameter, src/Main_code.py lines 66-89 *)

\* sum and count of the non-missing entries of values[lo..hi]
RECURSIVE ValidSum(_, _, _)
ValidSum(values, lo, hi) ==
    IF lo > hi THEN Zero
    ELSE IF IsNaN(values[lo]) THEN ValidSum(values, lo + 1, hi)
    ELSE RAdd(values[lo], ValidSum(values, lo + 1, hi))

RECURSIVE ValidSumSq(_, _, _)
ValidSumSq(values, lo, hi) ==
    IF lo > hi THEN Zero
    ELSE IF IsNaN(values[lo]) THEN ValidSumSq(values, lo + 1, hi)
    ELSE RAdd(RMul(values[lo], values[lo]), ValidSumSq(values, lo + 1, hi))

ValidCount(values, lo, hi) ==
    Cardinality({j \in lo..hi : ~IsNaN(values[j])})

\* lines 74-84: whether index k of `values` is an outlier of its window.
\*   len(local_valid) >= 2, std_ > 0, values[i] present, z_score > z_threshold
\* with mean = S/c and std^2 = (c*Q - S^2)/c^2 the test |v - mean|/std > z is
\*   (c*v - S)^2 > z^2 * (c*Q - S^2)      for z >= 0, and holds for z < 0.
z_exceeds(values, k, window, z) ==
    LET half_w == window \div 2
        left   == Max(1, k - half_w)
        right  == Min(Len(values), k + half_w)
        c      == ValidCount(values, left, right)
        S      == ValidSum(values, left, right)
        Q      == ValidSumSq(values, left, right)
        cR     == Rat(c, 1)
        varc   == RSub(RMul(cR, Q), RMul(S, S))
        dev    == RSub(RMul(cR, values[k]), S)
    IN  /\ c >= 2
        /\ RLt(Zero, varc)
        /\ ~IsNaN(values[k])
        /\ \/ z.n < 0
           \/ RLt(RMul(RMul(z, z), varc), RMul(dev, dev))

\* lines 73-85: the loop, which writes NaN into the array it is reading
RECURSIVE mark_loop(_, _, _, _)
mark_loop(values, k, window, z) ==
    IF k > Len(values) THEN values
    ELSE mark_loop(IF z_exceeds(values, k, window, z)
                   THEN [values EXCEPT ![k] = NaN] ELSE values,
                   k + 1, window, z)

\* the same decisions taken on an untouched copy of the input
outlier_pass_on_copy(values, window, z) ==
    [k \in 1..Len(values) |->
        IF z_exceeds(values, k, window, z) THEN NaN ELSE values[k]]

\* the same loop with every window taken over the whole series
outlier_pass_whole_series(values, window, z) ==
    mark_loop(values, 1, 2 * Len(values) + 1, z)

outlier_pass(values, window, z) == mark_loop(values, 1, window, z)

\* line 87: ser.interpolate(method='linear', limit_direction='both')
\* interior gaps are filled linearly by position, leading and trailing gaps
\* take the nearest valid value, a series without valid values stays missing
interpolate(values) ==
    LET n     == Len(values)
        valid == {j \in 1..n : ~IsNaN(values[j])}
        fill(k) ==
            LET before == {j \in valid : j < k}
                after  == {j \in valid : j > k}
            IN  IF before = {} /\ after = {} THEN NaN
                ELSE IF before = {} THEN
                    values[CHOOSE j \in after : \A m \in after : j <= m]
                ELSE IF after = {} THEN
                    values[CHOOSE j \in before : \A m \in before : j >= m]
                ELSE
                    LET a == CHOOSE j \in before : \A m \in before : j >= m
                        b == CHOOSE j \in after : \A m \in after : j <= m
                    IN  RAdd(values[a],
                             RMul(RSub(values[b], values[a]),
                                  Rat(k - a, b - a)))
    IN  [k \in 1..n |-> IF IsNaN(values[k]) THEN fill(k) ELSE values[k]]

\* ser.rolling(window, center=True, min_periods=1).mean()
\* pandas' fixed window at position k covers k+offset-window+1 .. k+offset
\* with offset = (window-1)//2, clipped to the series
rolling_mean(values, window) ==
    LET n      == Len(values)
        offset == (window - 1) \div 2
        at(k) ==
            LET lo == Max(1, k + offset - window + 1)
                hi == Min(n, k + offset)
                c  == ValidCount(values, lo, hi)
            IN  IF c < 1 THEN NaN
                ELSE RDiv(ValidSum(values, lo, hi), Rat(c, 1))
    IN  [k \in 1..n |-> at(k)]

smooth_diameter(values, window, z) ==
    rolling_mean(interpolate(outlier_pass(values, window, z)), window)

-----------------------------------------------------------------------------
(* force_smooth_diameter, src/Main_code.py lines 91-127                    *)
(*                                                                         *)
(* predict_time_series hands in two columns of df_filtered (lines 555-557),*)
(* pandas Series that keep the row labels of df: the positions 0..N-1 of   *)
(* the images in `records`, less the rows filtered out at lines 545-546.   *)
(* A Series indexed by an integer (forced_vals[i], lines 116-120) is read  *)
(* and written by LABEL, and raises KeyError for a label it does not hold; *)
(* a boolean mask (lines 105-108, 123-125) selects by position.  `index`   *)
(* is the sequence of labels by position; 0, 1, 2, ... is a numpy array or *)
(* a Series with the default index.                                        *)

RMaxOf(S) == CHOOSE x \in S : \A y \in S : RLe(y, x)

\* lines 104-108: np.maximum.accumulate over the rows before the cutoff
accumulate_identity(vals, mask_pre) == vals

accumulate_pre(vals, mask_pre) ==
    [k \in 1..Len(vals) |->
        IF mask_pre[k]
        THEN RMaxOf({vals[j] : j \in {m \in 1..k : mask_pre[m]}})
        ELSE vals[k]]

\* the positions whose label is `key` (none: KeyError)
positional_loc(index, key) ==
    IF key + 1 \in 1..Len(index) THEN {key + 1} ELSE {}

series_loc(index, key) == {j \in 1..Len(index) : index[j] = key}

\* lines 113-120, from position k on; i = k - 1 is the Python position
RECURSIVE clamp_loop(_, _, _, _, _)
clamp_loop(forced, index, mask_post, k, max_drop) ==
    IF k > Len(forced) THEN [error |-> FALSE, vals |-> forced]
    ELSE IF ~mask_post[k] \/ k - 1 = 0
    THEN clamp_loop(forced, index, mask_post, k + 1, max_drop)
    ELSE
        LET prev == series_loc(index, k - 2)
            cur  == series_loc(index, k - 1)
        IN  IF prev = {} \/ cur = {}
            THEN [error |-> TRUE, vals |-> forced]
            ELSE
                LET p == CHOOSE j \in prev : TRUE
                    c == CHOOSE j \in cur : TRUE
                    allowed_min == RSub(forced[p], max_drop)
                IN  clamp_loop(IF RLt(forced[c], allowed_min)
                               THEN [forced EXCEPT ![c] = allowed_min]
                               ELSE forced,
                               index, mask_post, k + 1, max_drop)

\* the subsequence of vals at the positions of mask, in order
RECURSIVE Masked(_, _, _)
Masked(vals, mask, k) ==
    IF k > Len(vals) THEN <<>>
    ELSE IF mask[k] THEN <<vals[k]>> \o Masked(vals, mask, k + 1)
    ELSE Masked(vals, mask, k + 1)

\* lines 123-125: the 3-wide centered rolling mean of the rows from the
\* cutoff on, written back to those rows
rolling_post(vals, mask_post) ==
    LET rolled == rolling_mean(Masked(vals, mask_post, 1), 3)
        rank(k) == Cardinality({j \in 1..k : mask_post[j]})
    IN  [k \in 1..Len(vals) |->
            IF mask_post[k] THEN rolled[rank(k)] ELSE vals[k]]

mask_pre_of(dates, cut) == [k \in 1..Len(dates) |-> dates[k] < cut]

mask_post_of(dates, cut) == [k \in 1..Len(dates) |-> dates[k] >= cut]

\* the array after the clamp loop: [error, vals]
force_clamped(index, dates, vals, cut, max_drop) ==
    clamp_loop(accumulate_pre(vals, mask_pre_of(dates, cut)),
               index, mask_post_of(dates, cut), 1, max_drop)

\* the returned array: [error, vals]
force_smooth_diameter(index, dates, vals, cut, max_drop) ==
    LET c == force_clamped(index, dates, vals, cut, max_drop)
    IN  IF c.error THEN c
        ELSE [error |-> FALSE,
              vals |-> rolling_post(c.vals, mask_post_of(dates, cut))]

-----------------------------------------------------------------------------
(* auto_offset_labels, src/Main_code.py lines 439-453 *)

\* the scan going on past a pair at its second element
next_index_by_one(k, close) == k + 1

\* lines 450 and 452: i += 2 past a close pair, i += 1 otherwise
next_index(k, close) == IF close THEN k + 2 ELSE k + 1

\* lines 445-452, from position k on (i = k - 1)
RECURSIVE offset_loop(_, _, _, _, _, _)
offset_loop(positions, new_positions, k, min_gap, offset_left, offset_right) ==
    IF ~(k - 1 < Len(positions) - 1) THEN new_positions
    ELSE
        LET dist  == RSub(positions[k + 1], positions[k])
            close == RLt(dist, min_gap)
        IN  offset_loop(positions,
                        IF close
                        THEN [new_positions EXCEPT
                                ![k] = RAdd(positions[k], offset_left),
                                ![k + 1] = RAdd(positions[k + 1],
                                                offset_right)]
                        ELSE new_positions,
                        next_index(k, close),
                        min_gap, offset_left, offset_right)

auto_offset_labels(positions, min_gap, offset_left, offset_right) ==
    offset_loop(positions, positions, 1, min_gap, offset_left, offset_right)

-----------------------------------------------------------------------------
(* predict_time_series, src/Main_code.py lines 455-920: the stages from   *)
(* `records` on.  Dates are day numbers; a record without date has NoDate *)
(* (date ""), one without usable diameter has average NaN (None).         *)

NoDate == 0 - 1

None == [n |-> 0, d |-> 0]

\* cutoff_str="2024-10-10" as a day number (day of October 2024)
CutoffDay == 10

\* offset_factor=2.0
OffsetFactor == 2

\* the parameters of double_sigmoid after x: A1, B1, C1, A2, B2, C2, D
NumParams == 7

\* lines 545-546: the rows with a date and an average, with their labels
RECURSIVE filter_rows(_, _)
filter_rows(records, k) ==
    IF k > Len(records) THEN <<>>
    ELSE IF records[k].date # NoDate /\ ~IsNaN(records[k].average_diameter)
    THEN <<[label |-> k - 1, date |-> records[k].date,
            average_diameter |-> records[k].average_diameter]>>
         \o filter_rows(records, k + 1)
    ELSE filter_rows(records, k + 1)

\* line 551: sort_values("date"), rows of one date kept in order
RECURSIVE sort_values(_)
sort_values(rows) ==
    IF rows = <<>> THEN <<>>
    ELSE
        LET first == CHOOSE k \in 1..Len(rows) :
                        /\ \A j \in 1..Len(rows) : rows[k].date <= rows[j].date
                        /\ \A j \in 1..(k - 1) : rows[j].date # rows[k].date
            rest  == [j \in 1..(Len(rows) - 1) |->
                        IF j < first THEN rows[j] ELSE rows[j + 1]]
        IN  <<rows[first]>> \o sort_values(rest)

\* lines 558-561: dict(zip(dates, column)) keeps, for each date, the value
\* of the last row of df_filtered with that date; .get gives None for a
\* date that is not a key (NaT for the empty date string)
write_back(d, rows, column) ==
    LET same == {j \in 1..Len(rows) : rows[j].date = d}
    IN  IF d = NoDate \/ same = {} THEN None
        ELSE column[CHOOSE j \in same : \A m \in same : m <= j]

Column(rows, name) == [k \in 1..Len(rows) |-> rows[k][name]]

RMinOf(S) == CHOOSE x \in S : \A y \in S : RLe(x, y)

Values(seq) == {seq[k] : k \in 1..Len(seq)}

\* line 666: len(x_num) >= 6 and nanmax(y_data) - nanmin(y_data) > 0.1
fit_guard_any_length(n, y_data) ==
    RLt(Rat(1, 10), RSub(RMaxOf(Values(y_data)), RMinOf(Values(y_data))))

fit_guard(n, y_data) ==
    /\ n >= 6
    /\ RLt(Rat(1, 10), RSub(RMaxOf(Values(y_data)), RMinOf(Values(y_data))))

\* lines 688-689: the stage a run is in once curve_fit's RuntimeError is
\* caught; were it not caught the run would end there
after_fit_failure_uncaught == "aborted"

after_fit_failure == "fitted"

\* np.nanargmax: the first position of the largest value; 0 when empty
later_or_equal_is_new_max(best, candidate) == RLe(best, candidate)

is_new_max(best, candidate) == RLt(best, candidate)

RECURSIVE nanargmax_from(_, _, _)
nanargmax_from(vals, k, best) ==
    IF k > Len(vals) THEN best
    ELSE nanargmax_from(vals, k + 1,
            IF IsNaN(vals[k]) THEN best
            ELSE IF best = 0 THEN k
            ELSE IF is_new_max(vals[best], vals[k]) THEN k
            ELSE best)

nanargmax(vals) == nanargmax_from(vals, 1, 0)

\* lines 705, 708, 743, 746: abs(C) > 1e-5
steep_enough(C) == RLt(Rat(1, 100000), RAbs(C))

\* lines 744-748: the x of the four phase lines, those of a term left out
\* whose steepness fails the test
phase_xvals(params, offset_factor) ==
    (IF steep_enough(params.C1)
     THEN <<RSub(params.B1, RDiv(offset_factor, params.C1)),
            RAdd(params.B1, RDiv(offset_factor, params.C1))>>
     ELSE <<>>)
    \o
    (IF steep_enough(params.C2)
     THEN <<RSub(params.B2, RDiv(offset_factor, params.C2)),
            RAdd(params.B2, RDiv(offset_factor, params.C2))>>
     ELSE <<>>)

phase_divisors(params) ==
    {C \in {params.C1, params.C2} : steep_enough(C)}

\* lines 702, 738: line_date within the dates of df_filtered
in_date_range_unchecked(line_date, min_date, max_date) == TRUE

in_date_range(line_date, min_date, max_date) ==
    RLe(min_date, line_date) /\ RLe(line_date, max_date)

\* lines 701-703 and 737-740 for each x: d_start + x days, kept when it lies
\* within the dates of df_filtered
RECURSIVE phase_dates(_, _, _, _)
phase_dates(xvals, k, min_date, max_date) ==
    IF k > Len(xvals) THEN <<>>
    ELSE
        LET line_date == RAdd(Rat(min_date, 1), xvals[k])
        IN  (IF in_date_range(line_date, Rat(min_date, 1), Rat(max_date, 1))
             THEN <<line_date>> ELSE <<>>)
            \o phase_dates(xvals, k + 1, min_date, max_date)

\* line 759: sorted(set(line_positions))
RECURSIVE sorted_set(_)
sorted_set(S) ==
    IF S = {} THEN <<>>
    ELSE LET m == RMinOf(S) IN <<m>> \o sorted_set(S \ {m})

-----------------------------------------------------------------------------
(* compute_scale (lines 228-244), the recording loop of                   *)
(* predict_time_series (lines 503-542) and its box-plot summary (lines    *)
(* 831-905).  A file name is a string; str.lower and the date prefix are  *)
(* tabulated for the names of the model.  Rounding is that of exact       *)
(* decimals: binary floating point error is not modelled.                 *)

\* line 233 / 234: str.lower()
lower(name) ==
    CASE name = "20241009_A.JPG" -> "20241009_a.jpg"
      [] OTHER -> name

\* line 234: scale_data["image"] = scale_data["image"].str.lower(), an
\* assignment to a column of the frame the caller passed in
image_column_lowered(scale_data) ==
    [k \in 1..Len(scale_data) |->
        [scale_data[k] EXCEPT !.image = lower(scale_data[k].image)]]

\* line 242: np.linalg.norm of (dx, dy), for the right triangles of the model
norm(dx, dy) ==
    CHOOSE r \in 0..(Abs(dx) + Abs(dy)) : r * r = dx * dx + dy * dy

\* lines 228-244: the table as it is after the call, and sc[0] (None when
\* the call returns None)
compute_scale(image_name, scale_data) ==
    IF scale_data = <<>>
    THEN [scale_data |-> scale_data, dist |-> None]
    ELSE
        LET image_name_lower == lower(image_name)
            lowered == image_column_lowered(scale_data)
            pts == SelectSeq(lowered, LAMBDA r : r.image = image_name_lower)
            pt1 == SelectSeq(pts, LAMBDA r : r.point = "scale_0cm")
            pt2 == SelectSeq(pts, LAMBDA r : r.point = "scale_1cm")
        IN  [scale_data |-> lowered,
             dist |-> IF pt1 = <<>> \/ pt2 = <<>> THEN None
                      ELSE Rat(norm(pt1[1].x - pt2[1].x,
                                    pt1[1].y - pt2[1].y), 1)]

\* line 507-511: the date of the first 8 characters, as a day of October
\* 2024, or None
date_of(base_name) ==
    CASE base_name \in {"20241009_A.JPG", "20241009_b.jpg"} -> CutoffDay - 1
      [] base_name = "20241010_c.jpg" -> CutoffDay
      [] OTHER -> NoDate

\* round(x, ndigits) with scale = 10^ndigits: to the nearest, halves to even
round(x, scale) ==
    LET q    == x.n * scale
        low  == q \div x.d
        rest == q - low * x.d
        up   == \/ 2 * rest > x.d
                \/ 2 * rest = x.d /\ low % 2 = 1
    IN  Rat(IF up THEN low + 1 ELSE low, scale)

\* the largest r in lo..hi with r * r <= x
RECURSIVE isqrt_between(_, _, _)
isqrt_between(x, lo, hi) ==
    IF lo = hi THEN lo
    ELSE LET mid == (lo + hi + 1) \div 2
         IN  IF mid * mid <= x THEN isqrt_between(x, mid, hi)
             ELSE isqrt_between(x, lo, mid - 1)

isqrt(x) == isqrt_between(x, 0, Min(x, 46340))

\* round(sqrt(x), 3) for x >= 0; sqrt(nan) is nan
sqrt_round3(x) ==
    IF IsNaN(x) THEN NaN
    ELSE Rat((isqrt((4000000 * x.n) \div x.d) + 1) \div 2, 1000)

RECURSIVE RSum(_, _)
RSum(seq, k) == IF k > Len(seq) THEN Zero ELSE RAdd(seq[k], RSum(seq, k + 1))

\* np.mean
mean(diams) == RDiv(RSum(diams, 1), Rat(Len(diams), 1))

\* np.std(diams, ddof=1) squared: the sum of squared deviations over n - 1,
\* nan (0/0) for a single value
sample_variance(diams) ==
    LET m  == mean(diams)
        sq == [k \in 1..Len(diams) |->
                  RMul(RSub(diams[k], m), RSub(diams[k], m))]
    IN  IF Len(diams) - 1 = 0 THEN NaN
        ELSE RDiv(RSum(sq, 1), Rat(Len(diams) - 1, 1))

\* line 530: round(std_dev / math.sqrt(len(diams)), 3), std_dev a multiple
\* of 1/1000 or nan
std_err_of(std_dev, n) ==
    IF IsNaN(std_dev) THEN NaN
    ELSE LET s == (std_dev.n * 1000) \div std_dev.d
         IN  Rat((isqrt((4 * s * s) \div n) + 1) \div 2, 1000)

\* lines 520-525: one diameter per box when there is a positive scale
diameters_of(widths, scale_len) ==
    IF ~IsNaN(scale_len) /\ RLt(Zero, scale_len)
    THEN [k \in 1..Len(widths) |->
             round(RDiv(Rat(widths[k], 1), scale_len), 100)]
    ELSE <<>>

\* lines 527-542
record_of(base_name, diams) ==
    LET std_dev == sqrt_round3(sample_variance(diams))
    IN  [filename |-> base_name,
         date |-> date_of(base_name),
         diameters |-> diams,
         average_diameter |-> IF diams # <<>> THEN round(mean(diams), 100)
                              ELSE None,
         std_dev |-> IF diams # <<>> THEN std_dev ELSE None,
         std_err |-> IF diams # <<>> THEN std_err_of(std_dev, Len(diams))
                     ELSE None]

\* lines 544-551 on the records of this run
rows_of(records) == sort_values(filter_rows(records, 1))

\* line 831: the diameters of all rows of one date, concatenated
RECURSIVE diameters_by_date(_, _, _, _)
diameters_by_date(records, rows, d, k) ==
    IF k > Len(rows) THEN <<>>
    ELSE (IF rows[k].date = d THEN records[rows[k].label + 1].diameters
          ELSE <<>>)
         \o diameters_by_date(records, rows, d, k + 1)

\* np.percentile sorts its input
RECURSIVE sorted(_)
sorted(arr) ==
    IF arr = <<>> THEN <<>>
    ELSE
        LET first == CHOOSE k \in 1..Len(arr) :
                        \A j \in 1..Len(arr) : RLe(arr[k], arr[j])
            rest  == [j \in 1..(Len(arr) - 1) |->
                        IF j < first THEN arr[j] ELSE arr[j + 1]]
        IN  <<arr[first]>> \o sorted(rest)

\* np.percentile(arr, q), linear interpolation between the neighbours of
\* rank (n - 1) * q / 100
percentile(arr, q) ==
    LET s    == sorted(arr)
        num  == (Len(arr) - 1) * q
        low  == num \div 100
        frac == Rat(num - low * 100, 100)
    IN  IF low + 1 >= Len(arr) THEN s[low + 1]
        ELSE RAdd(s[low + 1], RMul(frac, RSub(s[low + 2], s[low + 1])))

\* line 887 with the fences taken as inside
outside_or_on(x, lower_bound, upper_bound) ==
    RLe(x, lower_bound) \/ RLe(upper_bound, x)

\* line 887: (arr < lower_bound) | (arr > upper_bound)
outside(x, lower_bound, upper_bound) ==
    RLt(x, lower_bound) \/ RLt(upper_bound, x)

\* lines 877-901: the summary row of one date
summary_of(d, arr) ==
    LET q1 == percentile(arr, 25)
        median == percentile(arr, 50)
        q3 == percentile(arr, 75)
        iqr == RSub(q3, q1)
        lower_bound == RSub(q1, RMul(Rat(3, 2), iqr))
        upper_bound == RAdd(q3, RMul(Rat(3, 2), iqr))
        outliers == SelectSeq(arr, LAMBDA x : outside(x, lower_bound,
                                                   upper_bound))
    IN  [date |-> d,
         count |-> Len(arr),
         min |-> round(RMinOf(Values(arr)), 1000),
         q1 |-> round(q1, 1000),
         median |-> round(median, 1000),
         q3 |-> round(q3, 1000),
         max |-> round(RMaxOf(Values(arr)), 1000),
         IQR |-> round(iqr, 1000),
         lower_bound |-> round(lower_bound, 1000),
         upper_bound |-> round(upper_bound, 1000),
         outlier_count |-> Len(outliers)]

\* lines 832-833 and 876-901: one row per date of df_filtered, dates ascending
RECURSIVE summary_records(_, _, _)
summary_records(records, rows, dates) ==
    IF dates = {} THEN <<>>
    ELSE
        LET d == CHOOSE x \in dates : \A y \in dates : x <= y
        IN  <<summary_of(d, diameters_by_date(records, rows, d, 1))>>
            \o summary_records(records, rows, dates \ {d})

-----------------------------------------------------------------------------
(* Specification of smooth_diameter: every bounded series, window and     *)
(* threshold, then the three passes of the function in order.             *)

Measurements == {NaN} \cup {Rat(v, 1) : v \in 0..MaxVal}

SeriesUpTo(n) == UNION {[1..m -> Measurements] : m \in 0..n}

\* the end-to-end series of the specification: one spike at Python index 3
SpikeSeries ==
    [k \in 1..10 |-> IF k = 4 THEN Rat(5, 1) ELSE Rat(1, 1)]

DefaultWindow == 3

DefaultZ == Rat(5, 2)

ZThresholds == {Rat(0 - 1, 1), Zero, Rat(1, 1), DefaultZ}

ForceIdle ==
    /\ fs_pc = "idle"
    /\ fs_index = <<>>
    /\ fs_dates = <<>>
    /\ fs_cut = 0
    /\ fs_input = <<>>
    /\ fs_max_drop = Zero
    /\ fs_clamped = <<>>
    /\ fs_forced = <<>>

SmoothIdle ==
    /\ sd_pc = "idle"
    /\ sd_input = <<>>
    /\ sd_window = 0
    /\ sd_z = Zero
    /\ sd_values = <<>>
    /\ sd_ser = <<>>

LabelIdle ==
    /\ al_pc = "idle"
    /\ al_positions = <<>>
    /\ al_min_gap = Zero
    /\ al_offset_left = Zero
    /\ al_offset_right = Zero
    /\ al_new_positions = <<>>

PipeIdle ==
    /\ pt_pc = "idle"
    /\ pt_records = <<>>
    /\ pt_flags = <<>>
    /\ pt_df_filtered = <<>>
    /\ pt_smoothed = <<>>
    /\ pt_f_smoothed = <<>>
    /\ pt_df_columns = <<>>
    /\ pt_fit = "pending"
    /\ pt_fitted_params = None
    /\ pt_divisors = {}
    /\ pt_phase_lines = {}
    /\ pt_peak_line = NoDate
    /\ pt_line_positions = <<>>
    /\ pt_peak_label = NoDate
    /\ pt_new_positions = <<>>
    /\ pt_written = {}
    /\ pt_error = "none"

RecordIdle ==
    /\ rc_pc = "idle"
    /\ rc_loaded = <<>>
    /\ rc_scale_data = <<>>
    /\ rc_images = <<>>
    /\ rc_records = <<>>
    /\ rc_summary = <<>>

otherThanSmooth == <<forceVars, labelVars, pipeVars, recordVars>>

otherThanForce == <<smoothVars, labelVars, pipeVars, recordVars>>

otherThanLabels == <<smoothVars, forceVars, pipeVars, recordVars>>

otherThanPipe == <<smoothVars, forceVars, labelVars, recordVars>>

otherThanRecords == <<smoothVars, forceVars, labelVars, pipeVars>>

SmoothInit ==
    /\ sd_pc = "start"
    /\ \/ /\ sd_input \in SeriesUpTo(MaxLen)
          /\ sd_window \in 1..MaxWindow
          /\ sd_z \in ZThresholds
       \/ /\ sd_input = SpikeSeries
          /\ sd_window = DefaultWindow
          /\ sd_z = DefaultZ
    /\ sd_values = sd_input
    /\ sd_ser = <<>>
    /\ ForceIdle
    /\ LabelIdle
    /\ PipeIdle
    /\ RecordIdle

\* lines 73-85
SmoothMark ==
    /\ sd_pc = "start"
    /\ sd_values' = outlier_pass(sd_values, sd_window, sd_z)
    /\ sd_pc' = "marked"
    /\ UNCHANGED <<sd_input, sd_window, sd_z, sd_ser>>
    /\ UNCHANGED otherThanSmooth

\* lines 86-87
SmoothInterpolate ==
    /\ sd_pc = "marked"
    /\ sd_ser' = interpolate(sd_values)
    /\ sd_pc' = "interpolated"
    /\ UNCHANGED <<sd_input, sd_window, sd_z, sd_values>>
    /\ UNCHANGED otherThanSmooth

\* lines 88-89
SmoothRolling ==
    /\ sd_pc = "interpolated"
    /\ sd_ser' = rolling_mean(sd_ser, sd_window)
    /\ sd_pc' = "done"
    /\ UNCHANGED <<sd_input, sd_window, sd_z, sd_values>>
    /\ UNCHANGED otherThanSmooth

SmoothNext == SmoothMark \/ SmoothInterpolate \/ SmoothRolling

SpecSmooth == SmoothInit /\ [][SmoothNext]_vars

-----------------------------------------------------------------------------
(* Specification of force_smooth_diameter: one call on every bounded      *)
(* series.  The row labels ascend, as those of df_filtered do: the images *)
(* are listed in file-name order, which is date order, and rows left out  *)
(* (no date, no average) leave gaps in the labels.                        *)

DefaultMaxDrop == Rat(1, 20)

MaxDrops == {Zero, DefaultMaxDrop}

\* labels of n rows: `lead` rows filtered out ahead of the first, and at
\* most one more filtered out after position g
IndexesOf(n) ==
    {[k \in 1..n |-> (k - 1) + lead + (IF k > g THEN 1 ELSE 0)] :
        lead \in 0..MaxLead, g \in 1..n}

\* dates in order: the first p rows before the cutoff, the rest from it on
SortedDatesOf(n) == {[k \in 1..n |-> IF k <= p THEN 0 ELSE 1] : p \in 0..n}

DatesOf(n) ==
    SortedDatesOf(n) \cup (IF n <= FsMaxUnsorted THEN [1..n -> 0..1] ELSE {})

ForceValues == {Rat(v, 1) : v \in 0..MaxVal}

IsSorted(dates) ==
    \A j, k \in 1..Len(dates) : j < k => dates[j] <= dates[k]

ForceInit ==
    /\ fs_pc = "start"
    /\ \E n \in 1..FsMaxLen :
          /\ fs_index \in IndexesOf(n)
          /\ fs_dates \in DatesOf(n)
          /\ fs_input \in [1..n -> ForceValues]
    /\ fs_cut = 1
    /\ fs_max_drop \in MaxDrops
    /\ fs_clamped = <<>>
    /\ fs_forced = <<>>
    /\ SmoothIdle
    /\ LabelIdle
    /\ PipeIdle
    /\ RecordIdle

\* lines 99-127, the call returning
ForceSmooth ==
    /\ fs_pc = "start"
    /\ LET c == force_clamped(fs_index, fs_dates, fs_input, fs_cut,
                              fs_max_drop)
           r == force_smooth_diameter(fs_index, fs_dates, fs_input, fs_cut,
                                      fs_max_drop)
       IN  /\ ~r.error
           /\ fs_clamped' = c.vals
           /\ fs_forced' = r.vals
    /\ fs_pc' = "done"
    /\ UNCHANGED <<fs_index, fs_dates, fs_cut, fs_input, fs_max_drop>>
    /\ UNCHANGED otherThanForce

\* lines 116-117 raising KeyError: the call does not return
ForceKeyError ==
    /\ fs_pc = "start"
    /\ force_clamped(fs_index, fs_dates, fs_input, fs_cut,
                     fs_max_drop).error
    /\ fs_pc' = "KeyError"
    /\ UNCHANGED <<fs_index, fs_dates, fs_cut, fs_input, fs_max_drop,
                   fs_clamped, fs_forced>>
    /\ UNCHANGED otherThanForce

ForceNext == ForceSmooth \/ ForceKeyError

SpecForce == ForceInit /\ [][ForceNext]_vars

-----------------------------------------------------------------------------
(* Specification of auto_offset_labels: one call on every ascending list  *)
(* of grid positions, with the function's default parameters and with     *)
(* those predict_time_series passes (lines 761-767).                      *)

GridPositions == {Rat(j, 2) : j \in 0..GridSteps} \cup {Rat(10, 1)}

IsAscending(positions) ==
    \A k \in 1..(Len(positions) - 1) : RLe(positions[k], positions[k + 1])

AscendingLists ==
    UNION {{p \in [1..m -> GridPositions] : IsAscending(p)} :
              m \in 0..MaxLabels}

\* <<min_gap, offset_left, offset_right>>: line 439, lines 764-766
DefaultOffsets == <<Rat(1, 1), Rat(0 - 3, 1), Rat(3, 1)>>

PipelineOffsets == <<Rat(1, 1), Rat(0 - 3, 10), Rat(3, 10)>>

LabelInit ==
    /\ al_pc = "start"
    /\ al_positions \in AscendingLists
    /\ \E o \in {DefaultOffsets, PipelineOffsets} :
          /\ al_min_gap = o[1]
          /\ al_offset_left = o[2]
          /\ al_offset_right = o[3]
    /\ al_new_positions = <<>>
    /\ SmoothIdle
    /\ ForceIdle
    /\ PipeIdle
    /\ RecordIdle

\* lines 443-453
AutoOffsetLabels ==
    /\ al_pc = "start"
    /\ al_new_positions' = auto_offset_labels(al_positions, al_min_gap,
                                              al_offset_left, al_offset_right)
    /\ al_pc' = "done"
    /\ UNCHANGED <<al_positions, al_min_gap, al_offset_left, al_offset_right>>
    /\ UNCHANGED otherThanLabels

LabelNext == AutoOffsetLabels

SpecLabels == LabelInit /\ [][LabelNext]_vars

-----------------------------------------------------------------------------
(* Specification of predict_time_series, one run from `records` on.       *)
(* The images are listed in file-name order (line 493), so the dated ones *)
(* come in date order.  Two families of runs: every short list of images, *)
(* dated or not, measured or not; and longer lists of dated, measured     *)
(* images on consecutive days, long enough for the fit.                   *)

PtValues == {Rat(1, 1), Rat(21, 20), Rat(2, 1)}

ShortRecords ==
    [date : {NoDate, CutoffDay - 1, CutoffDay},
     average_diameter : {None, Rat(1, 1), Rat(2, 1)}]

DatedInOrder(records) ==
    \A j, k \in 1..Len(records) :
        (j < k /\ records[j].date # NoDate /\ records[k].date # NoDate)
            => records[j].date <= records[k].date

ShortRuns ==
    UNION {{r \in [1..m -> ShortRecords] : DatedInOrder(r)} :
              m \in 1..PtMaxImages}

\* n images from day `start` on: 1 up to image j, a at image j, b after it
LongRuns ==
    {[k \in 1..m |->
        [date |-> start + k - 1,
         average_diameter |-> IF k < j THEN Rat(1, 1)
                              ELSE IF k = j THEN a ELSE b]] :
        m \in 5..PtMaxSeries, j \in 1..PtMaxSeries,
        a \in PtValues, b \in PtValues,
        start \in {1, CutoffDay - 3, CutoffDay}}

\* show_curves stands for show_original or show_smoothed or show_f_smoothed
FlagChoices ==
    [show_curves : BOOLEAN, show_trend : BOOLEAN,
     show_peak_date : BOOLEAN, show_phase_lines : BOOLEAN]

\* the terms a converged fit may return: <<B, C>>
FittedTerms ==
    {<<Rat(4, 1), Rat(1, 2)>>, <<Rat(5, 2), Rat(1, 1)>>,
     <<Rat(3, 1), Zero>>, <<Rat(3, 1), Rat(1, 100000)>>,
     <<Rat(3, 1), Rat(0 - 4, 1)>>}

PipeInit ==
    /\ pt_pc = "start"
    /\ pt_records \in ShortRuns \cup LongRuns
    /\ pt_flags \in FlagChoices
    /\ pt_df_filtered = <<>>
    /\ pt_smoothed = <<>>
    /\ pt_f_smoothed = <<>>
    /\ pt_df_columns = <<>>
    /\ pt_fit = "pending"
    /\ pt_fitted_params = None
    /\ pt_divisors = {}
    /\ pt_phase_lines = {}
    /\ pt_peak_line = NoDate
    /\ pt_line_positions = <<>>
    /\ pt_peak_label = NoDate
    /\ pt_new_positions = <<>>
    /\ pt_written = {}
    /\ pt_error = "none"
    /\ SmoothIdle
    /\ ForceIdle
    /\ LabelIdle
    /\ RecordIdle

FilteredRows == sort_values(filter_rows(pt_records, 1))

\* lines 544-551, df_filtered not empty
PtFilter ==
    /\ pt_pc = "start"
    /\ FilteredRows # <<>>
    /\ pt_df_filtered' = FilteredRows
    /\ pt_pc' = "filtered"
    /\ UNCHANGED <<pt_records, pt_df_columns,
                   pt_flags, pt_smoothed, pt_f_smoothed,
                   pt_fit, pt_fitted_params, pt_divisors,
                   pt_phase_lines, pt_peak_line, pt_line_positions,
                   pt_peak_label, pt_new_positions, pt_written, pt_error>>
    /\ UNCHANGED otherThanPipe

\* lines 548-550: nothing to plot, the run returns
PtReturnEmpty ==
    /\ pt_pc = "start"
    /\ FilteredRows = <<>>
    /\ pt_pc' = "returned"
    /\ UNCHANGED <<pt_records, pt_df_columns,
                   pt_flags, pt_df_filtered, pt_smoothed,
                   pt_f_smoothed, pt_fit, pt_fitted_params,
                   pt_divisors, pt_phase_lines, pt_peak_line,
                   pt_line_positions, pt_peak_label, pt_new_positions,
                   pt_written, pt_error>>
    /\ UNCHANGED otherThanPipe

Smoothed ==
    smooth_diameter(Column(pt_df_filtered, "average_diameter"),
                    DefaultWindow, DefaultZ)

ForceSmoothed ==
    force_smooth_diameter(Column(pt_df_filtered, "label"),
                          Column(pt_df_filtered, "date"),
                          Smoothed, CutoffDay, DefaultMaxDrop)

\* lines 554-561
PtSmooth ==
    /\ pt_pc = "filtered"
    /\ ~ForceSmoothed.error
    /\ pt_smoothed' = Smoothed
    /\ pt_f_smoothed' = ForceSmoothed.vals
    /\ pt_df_columns' =
          [k \in 1..Len(pt_records) |->
              [smoothed_diameter |->
                   write_back(pt_records[k].date, pt_df_filtered,
                              pt_smoothed'),
               f_smoothed_diameter |->
                   write_back(pt_records[k].date, pt_df_filtered,
                              pt_f_smoothed')]]
    /\ pt_pc' = "smoothed"
    /\ UNCHANGED <<pt_records, pt_flags, pt_df_filtered, pt_fit,
                   pt_fitted_params, pt_divisors, pt_phase_lines,
                   pt_peak_line, pt_line_positions, pt_peak_label,
                   pt_new_positions, pt_written, pt_error>>
    /\ UNCHANGED otherThanPipe

\* lines 555-557 with force_smooth_diameter raising KeyError
PtSmoothKeyError ==
    /\ pt_pc = "filtered"
    /\ ForceSmoothed.error
    /\ pt_smoothed' = Smoothed
    /\ pt_error' = "KeyError"
    /\ pt_pc' = "aborted"
    /\ UNCHANGED <<pt_records, pt_df_columns,
                   pt_flags, pt_df_filtered, pt_f_smoothed,
                   pt_fit, pt_fitted_params, pt_divisors,
                   pt_phase_lines, pt_peak_line, pt_line_positions,
                   pt_peak_label, pt_new_positions, pt_written>>
    /\ UNCHANGED otherThanPipe

\* line 564
PlotEnabled == pt_flags.show_curves \/ pt_flags.show_trend

\* line 564 false: section 3 is skipped as a whole
PtSkipLinePlot ==
    /\ pt_pc = "smoothed"
    /\ ~PlotEnabled
    /\ pt_fit' = "skipped"
    /\ pt_pc' = "plotted"
    /\ UNCHANGED <<pt_records, pt_df_columns,
                   pt_flags, pt_df_filtered, pt_smoothed,
                   pt_f_smoothed, pt_fitted_params,
                   pt_divisors, pt_phase_lines, pt_peak_line,
                   pt_line_positions, pt_peak_label, pt_new_positions,
                   pt_written, pt_error>>
    /\ UNCHANGED otherThanPipe

FitWanted ==
    /\ pt_flags.show_trend
    /\ fit_guard(Len(pt_df_filtered), pt_f_smoothed)

fitUnchanged == <<pt_records, pt_df_columns, pt_flags, pt_df_filtered,
                  pt_smoothed,
                  pt_f_smoothed, pt_divisors, pt_phase_lines, pt_peak_line,
                  pt_line_positions, pt_peak_label, pt_new_positions,
                  pt_written>>

\* lines 660-666 with show_trend off or the test of line 666 false
PtFitSkipped ==
    /\ pt_pc = "smoothed"
    /\ PlotEnabled
    /\ ~FitWanted
    /\ pt_fit' = "skipped"
    /\ pt_pc' = "fitted"
    /\ UNCHANGED <<pt_fitted_params, pt_error>>
    /\ UNCHANGED fitUnchanged
    /\ UNCHANGED otherThanPipe

\* lines 678-687: curve_fit returns popt
PtFitConverged ==
    /\ pt_pc = "smoothed"
    /\ PlotEnabled
    /\ FitWanted
    /\ Len(pt_df_filtered) >= NumParams
    /\ \E t1 \in FittedTerms, t2 \in FittedTerms :
          pt_fitted_params' =
              [B1 |-> t1[1], C1 |-> t1[2], B2 |-> t2[1], C2 |-> t2[2]]
    /\ pt_fit' = "converged"
    /\ pt_pc' = "fitted"
    /\ UNCHANGED pt_error
    /\ UNCHANGED fitUnchanged
    /\ UNCHANGED otherThanPipe

\* lines 688-689: curve_fit gives up (RuntimeError), caught
PtFitNotConverged ==
    /\ pt_pc = "smoothed"
    /\ PlotEnabled
    /\ FitWanted
    /\ Len(pt_df_filtered) >= NumParams
    /\ pt_fit' = "not_converged"
    /\ pt_pc' = after_fit_failure
    /\ UNCHANGED <<pt_fitted_params, pt_error>>
    /\ UNCHANGED fitUnchanged
    /\ UNCHANGED otherThanPipe

\* line 679 with fewer points than parameters: curve_fit raises TypeError,
\* which line 688 does not catch
PtFitTypeError ==
    /\ pt_pc = "smoothed"
    /\ PlotEnabled
    /\ FitWanted
    /\ Len(pt_df_filtered) < NumParams
    /\ pt_fit' = "TypeError"
    /\ pt_error' = "TypeError"
    /\ pt_pc' = "aborted"
    /\ UNCHANGED pt_fitted_params
    /\ UNCHANGED fitUnchanged
    /\ UNCHANGED otherThanPipe

MinDate == pt_df_filtered[1].date

MaxDate == pt_df_filtered[Len(pt_df_filtered)].date

PhaseDates ==
    IF pt_flags.show_phase_lines /\ pt_fitted_params # None
    THEN phase_dates(phase_xvals(pt_fitted_params, Rat(OffsetFactor, 1)), 1,
                     MinDate, MaxDate)
    ELSE <<>>

PeakDate == pt_df_filtered[nanargmax(pt_f_smoothed)].date

\* lines 691-721: the gray phase lines and the red peak line
PtPhaseAndPeakLines ==
    /\ pt_pc = "fitted"
    /\ pt_phase_lines' = Values(PhaseDates)
    /\ pt_peak_line' = IF pt_flags.show_peak_date THEN PeakDate ELSE NoDate
    /\ pt_pc' = "lines"
    /\ UNCHANGED <<pt_records, pt_df_columns,
                   pt_flags, pt_df_filtered, pt_smoothed,
                   pt_f_smoothed, pt_fit, pt_fitted_params,
                   pt_divisors, pt_line_positions, pt_peak_label,
                   pt_new_positions, pt_written, pt_error>>
    /\ UNCHANGED otherThanPipe

LinePositions ==
    PhaseDates \o
    (IF pt_flags.show_peak_date THEN <<Rat(PeakDate, 1)>> ELSE <<>>)

\* lines 723-828: the labels of the top axis, then the figure is saved
PtTopAxisLabels ==
    /\ pt_pc = "lines"
    /\ pt_divisors' =
          IF pt_flags.show_phase_lines /\ pt_fitted_params # None
          THEN phase_divisors(pt_fitted_params) ELSE {}
    /\ pt_line_positions' = LinePositions
    /\ pt_peak_label' = IF pt_flags.show_peak_date THEN PeakDate ELSE NoDate
    /\ pt_new_positions' =
          IF LinePositions # <<>>
          THEN auto_offset_labels(sorted_set(Values(LinePositions)),
                                  PipelineOffsets[1], PipelineOffsets[2],
                                  PipelineOffsets[3])
          ELSE <<>>
    /\ pt_written' = pt_written \cup {"time_series_trend.png"}
    /\ pt_pc' = "plotted"
    /\ UNCHANGED <<pt_records, pt_df_columns,
                   pt_flags, pt_df_filtered, pt_smoothed,
                   pt_f_smoothed, pt_fit, pt_fitted_params,
                   pt_phase_lines, pt_peak_line, pt_error>>
    /\ UNCHANGED otherThanPipe

\* lines 830-905: df_filtered is not empty and each of its rows has
\* diameters, so box_data is not empty
PtBoxPlot ==
    /\ pt_pc = "plotted"
    /\ pt_written' = pt_written \cup {"time_series_boxplot.png",
                                       "time_series_boxplot_data.csv"}
    /\ pt_pc' = "boxed"
    /\ UNCHANGED <<pt_records, pt_df_columns,
                   pt_flags, pt_df_filtered, pt_smoothed,
                   pt_f_smoothed, pt_fit, pt_fitted_params,
                   pt_divisors, pt_phase_lines, pt_peak_line,
                   pt_line_positions, pt_peak_label, pt_new_positions,
                   pt_error>>
    /\ UNCHANGED otherThanPipe

\* lines 909-912
PtSaveCsv ==
    /\ pt_pc = "boxed"
    /\ pt_written' = pt_written \cup {"time_series_measurements.csv"}
    /\ pt_pc' = "done"
    /\ UNCHANGED <<pt_records, pt_df_columns,
                   pt_flags, pt_df_filtered, pt_smoothed,
                   pt_f_smoothed, pt_fit, pt_fitted_params,
                   pt_divisors, pt_phase_lines, pt_peak_line,
                   pt_line_positions, pt_peak_label, pt_new_positions,
                   pt_error>>
    /\ UNCHANGED otherThanPipe

PipeNext ==
    \/ PtFilter
    \/ PtReturnEmpty
    \/ PtSmooth
    \/ PtSmoothKeyError
    \/ PtSkipLinePlot
    \/ PtFitSkipped
    \/ PtFitConverged
    \/ PtFitNotConverged
    \/ PtFitTypeError
    \/ PtPhaseAndPeakLines
    \/ PtTopAxisLabels
    \/ PtBoxPlot
    \/ PtSaveCsv

SpecPipeline == PipeInit /\ [][PipeNext]_vars

-----------------------------------------------------------------------------
(* Specification of the recording loop and the box-plot summary: a        *)
(* calibration table, the images of the folder in sorted order with the   *)
(* boxes the detector returns for each, one step per image (lines         *)
(* 504-542), then the summary (lines 831-905) unless the run ended before *)
(* it (lines 548-550, or KeyError in lines 555-557).                      *)

ImageNames ==
    {"20241009_A.JPG", "20241009_b.jpg", "20241010_c.jpg", "notes_d.jpg"}

\* line 493: sorted() orders the names by code point
sort_rank(name) ==
    CASE name = "20241009_A.JPG" -> 1
      [] name = "20241009_b.jpg" -> 2
      [] name = "20241010_c.jpg" -> 3
      [] OTHER -> 4

\* x2 - x1 of the boxes of one image
WidthLists == {<<>>, <<100>>, <<1, 2, 3, 4>>, <<2, 1>>}

RECURSIVE by_rank(_)
by_rank(names) ==
    IF names = {} THEN <<>>
    ELSE LET first == CHOOSE x \in names :
                         \A y \in names : sort_rank(x) <= sort_rank(y)
         IN  <<first>> \o by_rank(names \ {first})

ImageLists ==
    UNION {{[k \in 1..Len(by_rank(names)) |->
                [filename |-> by_rank(names)[k], widths |-> w[k]]] :
               w \in [1..Cardinality(names) -> WidthLists]} :
              names \in {S \in SUBSET ImageNames :
                            Cardinality(S) <= RcMaxImages}}

\* the rows of the table for one image: none, scale_0cm alone, or both
\* points 0, 1 or 5 pixels apart
ScaleRows(image, kind) ==
    LET row(point, x, y) ==
            [point |-> point, x |-> x, y |-> y, image |-> image]
    IN  CASE kind = "none" -> <<>>
          [] kind = "zero_only" -> <<row("scale_0cm", 0, 0)>>
          [] kind = "dist0" ->
                <<row("scale_0cm", 0, 0), row("scale_1cm", 0, 0)>>
          [] kind = "dist1" ->
                <<row("scale_0cm", 0, 0), row("scale_1cm", 1, 0)>>
          [] OTHER ->
                <<row("scale_0cm", 0, 0), row("scale_1cm", 3, 4)>>

\* Marklabel.csv as written by hand: the first image under its name or in
\* lower case
Tables ==
    {ScaleRows(stored, ka) \o ScaleRows("20241009_b.jpg", kb)
        \o ScaleRows("20241010_c.jpg", kc) \o ScaleRows("notes_d.jpg", kd) :
        stored \in {"20241009_A.JPG", "20241009_a.jpg"},
        ka \in {"none", "zero_only", "dist0", "dist1", "dist5"},
        kb \in {"none", "dist1"}, kc \in {"none", "dist1"},
        kd \in {"none", "dist1"}}

RecordInit ==
    /\ rc_pc = "recording"
    /\ rc_loaded \in Tables
    /\ rc_scale_data = rc_loaded
    /\ rc_images \in ImageLists
    /\ rc_records = <<>>
    /\ rc_summary = <<>>
    /\ SmoothIdle
    /\ ForceIdle
    /\ LabelIdle
    /\ PipeIdle

\* lines 494-496
RcNoImages ==
    /\ rc_pc = "recording"
    /\ rc_images = <<>>
    /\ rc_pc' = "returned"
    /\ UNCHANGED <<rc_loaded, rc_scale_data, rc_images, rc_records,
                   rc_summary>>
    /\ UNCHANGED otherThanRecords

\* lines 504-542 for the next image
RcRecordImage ==
    /\ rc_pc = "recording"
    /\ Len(rc_records) < Len(rc_images)
    /\ LET img == rc_images[Len(rc_records) + 1]
           sc  == compute_scale(img.filename, rc_scale_data)
       IN  /\ rc_scale_data' = sc.scale_data
           /\ rc_records' =
                 Append(rc_records,
                        record_of(img.filename,
                                  diameters_of(img.widths, sc.dist)))
    /\ rc_pc' = IF Len(rc_records) + 1 = Len(rc_images)
                THEN "recorded" ELSE "recording"
    /\ UNCHANGED <<rc_loaded, rc_images, rc_summary>>
    /\ UNCHANGED otherThanRecords

\* lines 554-557 raise KeyError
smoothing_fails(rows) ==
    force_smooth_diameter(
        Column(rows, "label"), Column(rows, "date"),
        smooth_diameter(Column(rows, "average_diameter"),
                        DefaultWindow, DefaultZ),
        CutoffDay, DefaultMaxDrop).error

\* lines 548-550
RcReturnEmpty ==
    /\ rc_pc = "recorded"
    /\ rows_of(rc_records) = <<>>
    /\ rc_pc' = "returned"
    /\ UNCHANGED <<rc_loaded, rc_scale_data, rc_images, rc_records,
                   rc_summary>>
    /\ UNCHANGED otherThanRecords

\* lines 555-557 with force_smooth_diameter raising KeyError
RcSmoothKeyError ==
    /\ rc_pc = "recorded"
    /\ rows_of(rc_records) # <<>>
    /\ smoothing_fails(rows_of(rc_records))
    /\ rc_pc' = "aborted"
    /\ UNCHANGED <<rc_loaded, rc_scale_data, rc_images, rc_records,
                   rc_summary>>
    /\ UNCHANGED otherThanRecords

\* lines 831-905
RcBoxSummary ==
    /\ rc_pc = "recorded"
    /\ rows_of(rc_records) # <<>>
    /\ ~smoothing_fails(rows_of(rc_records))
    /\ rc_summary' =
          summary_records(rc_records, rows_of(rc_records),
                          Values(Column(rows_of(rc_records), "date")))
    /\ rc_pc' = "summarized"
    /\ UNCHANGED <<rc_loaded, rc_scale_data, rc_images, rc_records>>
    /\ UNCHANGED otherThanRecords

RecordNext ==
    \/ RcNoImages
    \/ RcRecordImage
    \/ RcReturnEmpty
    \/ RcSmoothKeyError
    \/ RcBoxSummary

SpecRecords == RecordInit /\ [][RecordNext]_vars

-----------------------------------------------------------------------------
(* Claims about smooth_diameter *)

HasValid(values) == \E k \in 1..Len(values) : ~IsNaN(values[k])

\* C1 (amended): the decision at index k is taken on the array as the loop
\* finds it at k, in which the values marked at earlier indices of the same
\* pass are already missing and the later ones are still the input's; a
\* value that is not marked is left as it was.
C1_MarksFromWorkingValues ==
    sd_pc # "start" =>
        /\ Len(sd_values) = Len(sd_input)
        /\ \A k \in 1..Len(sd_input) :
              LET seen == [j \in 1..Len(sd_input) |->
                              IF j < k THEN sd_values[j] ELSE sd_input[j]]
              IN  /\ IsNaN(sd_values[k]) <=>
                        (IsNaN(sd_input[k])
                            \/ z_exceeds(seen, k, sd_window, sd_z))
                  /\ ~IsNaN(sd_values[k]) => sd_values[k] = sd_input[k]

\* the pass has marked a value, and an untouched copy would have given
\* other marks
C1_Witness ==
    /\ sd_pc = "marked"
    /\ sd_values # sd_input
    /\ sd_values # outlier_pass_on_copy(sd_input, sd_window, sd_z)
    /\ sd_z = Rat(1, 1)
    /\ sd_window = DefaultWindow

\* C1 (as claimed): the values marked missing by the outlier pass are exactly
\* those that the window test marks when every window is evaluated on an
\* untouched copy of the input.
C1_MarksFromOriginalValues ==
    sd_pc # "start" =>
        sd_values = outlier_pass_on_copy(sd_input, sd_window, sd_z)

\* C2 (as claimed): for the averages [1,1,1,5,1,1,1,1,1,1], window 3 and
\* threshold 2.5, the smoothed value at Python index 3 does not exceed 1.3.
C2_SpikeSmoothedAway ==
    (sd_pc = "done" /\ sd_input = SpikeSeries
        /\ sd_window = DefaultWindow /\ sd_z = DefaultZ)
    => RLe(sd_ser[4], Rat(13, 10))

\* C3: when the input holds at least one non-missing value, the outlier pass
\* leaves at least one value, and the result has one value per input
\* position, none of them missing, whatever the window and the threshold.
C3_SmoothOutputComplete ==
    HasValid(sd_input) =>
        /\ sd_pc # "start" => HasValid(sd_values)
        /\ sd_pc = "done" =>
              /\ Len(sd_ser) = Len(sd_input)
              /\ \A k \in 1..Len(sd_ser) : ~IsNaN(sd_ser[k])

\* a finished call in which the pass marked a value and the input already
\* had a gap
C3_Witness ==
    /\ sd_pc = "done"
    /\ HasValid(sd_input)
    /\ sd_values # sd_input
    /\ \E k \in 1..Len(sd_input) : IsNaN(sd_input[k])

UsesDefaults == sd_window = DefaultWindow /\ sd_z = DefaultZ

\* the mean of the linearly interpolated input over positions k - 1 .. k + 1,
\* as far as they exist
MeanOfThree(k) ==
    LET x  == interpolate(sd_input)
        lo == Max(1, k - 1)
        hi == Min(Len(x), k + 1)
    IN  IF \A j \in lo..hi : IsNaN(x[j]) THEN NaN
        ELSE RDiv(ValidSum(x, lo, hi), Rat(hi - lo + 1, 1))

\* C20: with the default window 3 and z_threshold 2.5 no value is ever
\* marked as an outlier, for any input series, so the output equals the
\* centered 3-wide rolling mean (edge windows shrunk) of the linearly
\* interpolated input.
C20_DefaultsNeverMark ==
    UsesDefaults =>
        /\ sd_pc \in {"marked", "interpolated", "done"} =>
              sd_values = sd_input
        /\ sd_pc = "done" =>
              /\ Len(sd_ser) = Len(sd_input)
              /\ \A k \in 1..Len(sd_input) : sd_ser[k] = MeanOfThree(k)

\* a finished default run on a series with a gap and with a window of three
\* values of which one stands apart (z-score sqrt 2, the largest possible)
C20_Witness ==
    /\ sd_pc = "done"
    /\ UsesDefaults
    /\ \E k \in 1..Len(sd_input) : IsNaN(sd_input[k])
    /\ \E k \in 2..(Len(sd_input) - 1) :
          /\ \A j \in (k - 1)..(k + 1) : ~IsNaN(sd_input[j])
          /\ sd_input[k - 1] = sd_input[k]
          /\ sd_input[k + 1] # sd_input[k]

-----------------------------------------------------------------------------
(* Claims about force_smooth_diameter *)

PrePositions == {k \in 1..Len(fs_dates) : fs_dates[k] < fs_cut}

PostPositions == {k \in 1..Len(fs_dates) : fs_dates[k] >= fs_cut}

\* C4 (as claimed): for every input, the rows before the cutoff are
\* non-decreasing in the returned array: out[i] <= out[j] for all such i < j.
C4_PreCutoffNonDecreasing ==
    fs_pc = "done" =>
        \A i, j \in PrePositions : i < j => RLe(fs_forced[i], fs_forced[j])

\* the same on the inputs predict_time_series builds, whose dates are sorted
PreCutoffNonDecreasingWhenSorted ==
    IsSorted(fs_dates) => C4_PreCutoffNonDecreasing

\* C5 (as claimed): for a date-sorted input, every adjacent pair of rows from
\* the cutoff on satisfies out[i] >= out[i-1] - max_drop in the returned
\* array.
C5_PostCutoffDropBounded ==
    (fs_pc = "done" /\ IsSorted(fs_dates)) =>
        \A k \in PostPositions :
            (k - 1) \in PostPositions =>
                RLe(RSub(fs_forced[k - 1], fs_max_drop), fs_forced[k])

\* the same bound when the labels of the Series are its positions
PostDropBoundedOnDefaultIndex ==
    (\A k \in 1..Len(fs_index) : fs_index[k] = k - 1)
        => C5_PostCutoffDropBounded

\* forced_vals as the clamp walk finds it: the rows before the cutoff
\* replaced by their running maximum
BeforeWalk == accumulate_pre(fs_input, mask_pre_of(fs_dates, fs_cut))

\* C16: in the clamp walk a post-cutoff point is exempt only at index 0 of
\* the whole series; every other post-cutoff point is clamped against the
\* value just before it as it stands then (a pre-cutoff running maximum or
\* an already clamped value), so that before the rolling mean
\* value[i] >= value[i-1] - max_drop holds for every post-cutoff i >= 1.
C16_ClampWalk ==
    fs_pc = "done" =>
        \A k \in PostPositions :
            IF k = 1 THEN fs_clamped[k] = BeforeWalk[k]
            ELSE /\ RLe(RSub(fs_clamped[k - 1], fs_max_drop), fs_clamped[k])
                 /\ fs_clamped[k] =
                       IF RLt(BeforeWalk[k],
                              RSub(fs_clamped[k - 1], fs_max_drop))
                       THEN RSub(fs_clamped[k - 1], fs_max_drop)
                       ELSE BeforeWalk[k]

\* what holds of it: the walk is as claimed when the row labels are the
\* positions 0, 1, 2, ...
ClampWalkOnDefaultIndex ==
    (\A k \in 1..Len(fs_index) : fs_index[k] = k - 1) => C16_ClampWalk

FirstPost == CHOOSE k \in PostPositions : \A j \in PostPositions : k <= j

\* C17: when the cutoff falls strictly inside the date-sorted series, the
\* returned value at the first row from the cutoff on is at least the
\* returned value at the last row before the cutoff minus max_drop.
C17_BoundaryStepBounded ==
    (/\ fs_pc = "done"
     /\ IsSorted(fs_dates)
     /\ PrePositions # {}
     /\ PostPositions # {}) =>
        RLe(RSub(fs_forced[FirstPost - 1], fs_max_drop),
            fs_forced[FirstPost])

\* the same, for a Series whose row labels are the positions 0, 1, 2, ...
BoundaryStepOnDefaultIndex ==
    (\A k \in 1..Len(fs_index) : fs_index[k] = k - 1)
        => C17_BoundaryStepBounded

-----------------------------------------------------------------------------
(* Claims about auto_offset_labels *)

CloseAt(k) ==
    /\ k < Len(al_positions)
    /\ RLt(RSub(al_positions[k + 1], al_positions[k]), al_min_gap)

\* k is the left element of a pair the greedy pass selects: the pair is close
\* and k is not the right element of the pair selected just before
LeftOfPair[k \in 1..Len(al_positions)] ==
    CloseAt(k) /\ (k = 1 \/ ~LeftOfPair[k - 1])

\* C10: one greedy left-to-right pass: each selected pair becomes
\* (positions[i] + offset_left, positions[i+1] + offset_right), every other
\* position is returned unchanged and the length is kept; [0, 0.5, 10] with
\* min_gap 1 moves only 0 and 0.5, and of three positions all within min_gap
\* only the first adjacent pair is moved.
C10_GreedySinglePass ==
    al_pc = "done" =>
        /\ Len(al_new_positions) = Len(al_positions)
        /\ \A k \in 1..Len(al_positions) :
              al_new_positions[k] =
                  IF LeftOfPair[k]
                  THEN RAdd(al_positions[k], al_offset_left)
                  ELSE IF k > 1 /\ LeftOfPair[k - 1]
                  THEN RAdd(al_positions[k], al_offset_right)
                  ELSE al_positions[k]
        /\ al_positions = <<Zero, Rat(1, 2), Rat(10, 1)>> =>
              al_new_positions = <<RAdd(Zero, al_offset_left),
                                   RAdd(Rat(1, 2), al_offset_right),
                                   Rat(10, 1)>>
        /\ (Len(al_positions) = 3
              /\ RLt(RSub(al_positions[3], al_positions[1]), al_min_gap)) =>
              al_new_positions = <<RAdd(al_positions[1], al_offset_left),
                                   RAdd(al_positions[2], al_offset_right),
                                   al_positions[3]>>

\* a finished pass over a run of three close positions followed by more
C10_Witness ==
    /\ al_pc = "done"
    /\ Len(al_positions) >= 4
    /\ CloseAt(1) /\ CloseAt(2) /\ CloseAt(3)
    /\ al_new_positions # al_positions

UsesPipelineOffsets ==
    /\ al_min_gap = PipelineOffsets[1]
    /\ al_offset_left = PipelineOffsets[2]
    /\ al_offset_right = PipelineOffsets[3]

\* line 759, sorted(set(...)): the positions are distinct
IsStrictlyAscending(positions) ==
    \A k \in 1..(Len(positions) - 1) : RLt(positions[k], positions[k + 1])

\* exactly one adjacent pair is closer than min_gap
IsolatedClosePair ==
    /\ IsStrictlyAscending(al_positions)
    /\ Cardinality({k \in 1..Len(al_positions) : CloseAt(k)}) = 1

\* C11: for an input with an isolated close pair and the parameters of the
\* pipeline (min_gap 1.0, offsets -0.3 and 0.3) no two returned positions are
\* closer than min_gap.
C11_IsolatedPairSeparated ==
    (al_pc = "done" /\ UsesPipelineOffsets /\ IsolatedClosePair) =>
        \A j, k \in 1..Len(al_new_positions) :
            j # k =>
                RLe(al_min_gap,
                    RAbs(RSub(al_new_positions[k], al_new_positions[j])))

\* C19: for every strictly ascending list of distinct positions and the
\* parameters of the pipeline, the returned positions are still strictly
\* ascending (so that label_map, keyed by the new positions, has one entry
\* per annotation).
C19_OffsetsKeepOrder ==
    (/\ al_pc = "done"
     /\ UsesPipelineOffsets
     /\ IsStrictlyAscending(al_positions)) =>
        IsStrictlyAscending(al_new_positions)

-----------------------------------------------------------------------------
(* Claims about predict_time_series *)

FitAttempted == pt_fit \in {"converged", "not_converged", "TypeError"}

PastTrend == pt_fit # "pending"

PastLines == pt_pc \in {"lines", "plotted", "boxed", "done"} /\ PlotEnabled

PastLabels == pt_pc \in {"plotted", "boxed", "done"} /\ PlotEnabled

StabilizedRange ==
    RSub(RMaxOf(Values(pt_f_smoothed)), RMinOf(Values(pt_f_smoothed)))

\* C6: the fit is attempted only when the Time Series has at least 6 points
\* and max(stabilized) - min(stabilized) > 0.1 (and show_trend is on); in
\* every other case no fit is attempted, fitted_params stays absent and no
\* error is raised.
C6_FitOnlyWhenEnoughData ==
    PastTrend =>
        LET enough == /\ Len(pt_df_filtered) >= 6
                      /\ RLt(Rat(1, 10), StabilizedRange)
        IN  /\ FitAttempted => (enough /\ pt_flags.show_trend)
            /\ ~(enough /\ pt_flags.show_trend) =>
                  /\ pt_fit = "skipped"
                  /\ pt_fitted_params = None
                  /\ pt_error = "none"
                  /\ pt_pc # "aborted"

\* a finished run with show_trend on and 6 points whose range is too small
C6_Witness ==
    /\ pt_pc = "done"
    /\ pt_flags.show_trend
    /\ Len(pt_df_filtered) >= 6
    /\ pt_fit = "skipped"
    /\ StabilizedRange # Zero

\* C7: when the fit is skipped or does not converge the run is not aborted:
\* fitted_params stays absent, no phase line and no phase label position is
\* produced, the peak date (when asked for, in the line-plot section) is
\* still taken from the stabilized series and labelled, and the run goes on
\* to write the box-plot summary and the measurement table.
C7_FitAbsenceNotFatal ==
    pt_fit \in {"skipped", "not_converged"} =>
        /\ pt_pc # "aborted"
        /\ pt_error = "none"
        /\ pt_fitted_params = None
        /\ pt_phase_lines = {}
        /\ (PastLines /\ pt_flags.show_peak_date) =>
              /\ pt_peak_line \in Values(Column(pt_df_filtered, "date"))
              /\ \A k \in 1..Len(pt_f_smoothed) :
                    RLe(pt_f_smoothed[k],
                        pt_f_smoothed[nanargmax(pt_f_smoothed)])
        /\ PastLabels =>
              pt_line_positions =
                  IF pt_flags.show_peak_date
                  THEN <<Rat(pt_peak_line, 1)>> ELSE <<>>
        /\ (PastLabels /\ pt_flags.show_peak_date) =>
              /\ pt_peak_label = pt_peak_line
              /\ pt_new_positions = <<Rat(pt_peak_label, 1)>>
        /\ pt_pc = "done" =>
              {"time_series_boxplot_data.csv",
               "time_series_measurements.csv"} \subseteq pt_written

\* a finished run whose fit was tried and did not converge, with phase
\* lines and peak date asked for
C7_Witness ==
    /\ pt_pc = "done"
    /\ pt_fit = "not_converged"
    /\ pt_flags.show_phase_lines
    /\ pt_flags.show_peak_date

\* the phase positions among line_positions: all but the peak's, which is
\* appended last
PhasePositions ==
    SubSeq(pt_line_positions, 1,
           Len(pt_line_positions) - (IF pt_flags.show_peak_date THEN 1 ELSE 0))

\* B - f/C and B + f/C as dates, for a term the claim keeps
TermDates(B, C) ==
    IF RLt(Rat(1, 100000), RAbs(C))
    THEN {RAdd(Rat(MinDate, 1), RSub(B, RDiv(Rat(OffsetFactor, 1), C))),
          RAdd(Rat(MinDate, 1), RAdd(B, RDiv(Rat(OffsetFactor, 1), C)))}
    ELSE {}

\* C8: the phase positions handed to the label solver are exactly those of
\* B1 -/+ f/C1, B2 -/+ f/C2 whose term has |C| > 1e-5 and whose date lies in
\* [min_date, max_date]: at most 4, none outside the observed dates, and no
\* division by a C with |C| <= 1e-5.
C8_PhasePositionsInRange ==
    PastLabels =>
        /\ Len(PhasePositions) <= 4
        /\ \A k \in 1..Len(PhasePositions) :
              /\ RLe(Rat(MinDate, 1), PhasePositions[k])
              /\ RLe(PhasePositions[k], Rat(MaxDate, 1))
        /\ \A C \in pt_divisors : RLt(Rat(1, 100000), RAbs(C))
        /\ Values(PhasePositions) =
              IF pt_flags.show_phase_lines /\ pt_fitted_params # None
              THEN {d \in TermDates(pt_fitted_params.B1, pt_fitted_params.C1)
                           \cup TermDates(pt_fitted_params.B2,
                                          pt_fitted_params.C2) :
                       RLe(Rat(MinDate, 1), d) /\ RLe(d, Rat(MaxDate, 1))}
              ELSE {}

\* a fit with one term too flat and one term with a date inside and a date
\* outside the observed range
C8_Witness ==
    /\ pt_pc = "done"
    /\ pt_flags.show_phase_lines
    /\ pt_fitted_params # None
    /\ Len(PhasePositions) = 1
    /\ Cardinality(pt_divisors) = 1
    /\ pt_fitted_params.C2 = Zero

MaxPositions ==
    {k \in 1..Len(pt_f_smoothed) :
        \A j \in 1..Len(pt_f_smoothed) :
            RLe(pt_f_smoothed[j], pt_f_smoothed[k])}

\* C9: the peak date is the date at the smallest position at which the
\* stabilized series attains its maximum, hence the earliest such date, and
\* the red line and the top-axis label use the same date.
C9_PeakIsFirstMaximum ==
    (PastLines /\ pt_flags.show_peak_date) =>
        /\ \E p \in MaxPositions :
              /\ \A q \in MaxPositions : p <= q
              /\ pt_peak_line = pt_df_filtered[p].date
        /\ \A q \in MaxPositions : pt_peak_line <= pt_df_filtered[q].date
        /\ PastLabels =>
              /\ pt_peak_label = pt_peak_line
              /\ pt_line_positions[Len(pt_line_positions)]
                    = Rat(pt_peak_line, 1)

\* the maximum is attained on several dates
C9_Witness ==
    /\ pt_pc = "done"
    /\ pt_flags.show_peak_date
    /\ PlotEnabled
    /\ \E p, q \in MaxPositions :
          pt_df_filtered[p].date < pt_df_filtered[q].date
    /\ \E k \in 1..Len(pt_f_smoothed) : k \notin MaxPositions /\ k = 1

RunEnded == pt_pc \in {"done", "returned", "aborted"}

\* the rows of `records` without a valid date prefix
UndatedRows == {k \in 1..Len(pt_records) : pt_records[k].date = NoDate}

\* C14: in every run each image whose file name has no valid date is kept
\* out of the Time Series but is a row of the measurement table the run
\* writes (df, all of `records`), whatever the other images are, also when
\* no image has both a date and an average.
C14_UndatedKeptInTable ==
    (RunEnded /\ UndatedRows # {}) =>
        /\ \A k \in UndatedRows :
              \A j \in 1..Len(pt_df_filtered) :
                  pt_df_filtered[j].label # k - 1
        /\ "time_series_measurements.csv" \in pt_written

\* the position in the Time Series of the image of row k of df, or 0
SeriesPosition(k) ==
    IF \E j \in 1..Len(pt_df_filtered) : pt_df_filtered[j].label = k - 1
    THEN CHOOSE j \in 1..Len(pt_df_filtered) :
            pt_df_filtered[j].label = k - 1
    ELSE 0

\* C18: after the write-back every image of the Time Series carries the
\* smoothed and force-smoothed values computed at its own position of the
\* series, and every image outside it (no date or no average) carries none,
\* also when several images share a date.
C18_WriteBackOwnValues ==
    pt_df_columns # <<>> =>
        \A k \in 1..Len(pt_records) :
            IF SeriesPosition(k) # 0
            THEN /\ pt_df_columns[k].smoothed_diameter
                        = pt_smoothed[SeriesPosition(k)]
                 /\ pt_df_columns[k].f_smoothed_diameter
                        = pt_f_smoothed[SeriesPosition(k)]
            ELSE /\ pt_df_columns[k].smoothed_diameter = None
                 /\ pt_df_columns[k].f_smoothed_diameter = None

\* what holds of it: the write-back is as claimed when no two images have
\* the same date
WriteBackOwnValuesOnDistinctDates ==
    (\A j, k \in 1..Len(pt_records) :
        (j # k /\ pt_records[j].date # NoDate)
            => pt_records[j].date # pt_records[k].date)
        => C18_WriteBackOwnValues

-----------------------------------------------------------------------------
(* Claims about the recording loop, compute_scale and the box-plot summary *)

\* the diameters of all images of date d, in the order of the images
RECURSIVE Pooled(_, _)
Pooled(d, k) ==
    IF k > Len(rc_records) THEN <<>>
    ELSE (IF rc_records[k].date = d THEN rc_records[k].diameters ELSE <<>>)
         \o Pooled(d, k + 1)

RECURSIVE DiameterCount(_, _)
DiameterCount(d, k) ==
    IF k > Len(rc_records) THEN 0
    ELSE (IF rc_records[k].date = d THEN Len(rc_records[k].diameters)
          ELSE 0)
         + DiameterCount(d, k + 1)

\* the quartile q of 4 by linear interpolation: rank (n - 1) * q / 4 of the
\* ascending values, between its two neighbours
Quartile(pool, q) ==
    LET asc  == sorted(pool)
        low  == ((Len(pool) - 1) * q) \div 4
        part == ((Len(pool) - 1) * q) % 4
    IN  IF part = 0 THEN asc[low + 1]
        ELSE RAdd(RMul(Rat(4 - part, 4), asc[low + 1]),
                  RMul(Rat(part, 4), asc[low + 2]))

StrictlyOutside(pool, lo, hi) ==
    {k \in 1..Len(pool) : RLt(pool[k], lo) \/ RLt(hi, pool[k])}

\* C12: every row of the summary is computed over the concatenation of the
\* diameters of all images of its date (count is the sum of the per-image
\* counts), with quartiles by linear interpolation, fences Q1 - 1.5 IQR and
\* Q3 + 1.5 IQR and outlier_count the number of values strictly outside the
\* fences; for the pooled diameters 1, 2, 3, 4, 100 only 100 is an outlier.
C12_SummaryOverPooledDiameters ==
    rc_pc = "summarized" =>
        \A k \in 1..Len(rc_summary) :
            LET row  == rc_summary[k]
                pool == Pooled(row.date, 1)
                q1   == Quartile(pool, 1)
                q3   == Quartile(pool, 3)
                lo   == RSub(q1, RMul(Rat(3, 2), RSub(q3, q1)))
                hi   == RAdd(q3, RMul(Rat(3, 2), RSub(q3, q1)))
            IN  /\ row.count = DiameterCount(row.date, 1)
                /\ row.count = Len(pool)
                /\ row.q1 = round(q1, 1000)
                /\ row.median = round(Quartile(pool, 2), 1000)
                /\ row.q3 = round(q3, 1000)
                /\ row.IQR = round(RSub(q3, q1), 1000)
                /\ row.lower_bound = round(lo, 1000)
                /\ row.upper_bound = round(hi, 1000)
                /\ row.outlier_count
                      = Cardinality(StrictlyOutside(pool, lo, hi))
                /\ sorted(pool) = <<Rat(1, 1), Rat(2, 1), Rat(3, 1),
                                    Rat(4, 1), Rat(100, 1)>> =>
                      /\ row.outlier_count = 1
                      /\ \A j \in StrictlyOutside(pool, lo, hi) :
                            pool[j] = Rat(100, 1)

\* a summary row pooled from two images of one date: 1, 2, 3, 4 and 100
C12_Witness ==
    /\ rc_pc = "summarized"
    /\ \E k \in 1..Len(rc_summary) :
          /\ rc_summary[k].count = 5
          /\ rc_summary[k].outlier_count = 1
          /\ rc_summary[k].max = Rat(100, 1)
          /\ Cardinality({j \in 1..Len(rc_records) :
                             /\ rc_records[j].date = rc_summary[k].date
                             /\ rc_records[j].diameters # <<>>}) = 2

Present(x) == ~IsNaN(x)

\* C13: every record has average, sample standard deviation and standard
\* error all present (defined numbers) or all absent, for every number of
\* usable diameters including one; all absent exactly when the diameters
\* list is empty (no detections, no calibration scale, or a pixel distance
\* that is not positive).
C13_StatisticsAllOrNone ==
    \A k \in 1..Len(rc_records) :
        LET rec == rc_records[k]
            all_present == /\ Present(rec.average_diameter)
                           /\ Present(rec.std_dev)
                           /\ Present(rec.std_err)
            all_absent  == /\ ~Present(rec.average_diameter)
                           /\ ~Present(rec.std_dev)
                           /\ ~Present(rec.std_err)
        IN  /\ all_present \/ all_absent
            /\ all_absent <=> rec.diameters = <<>>

\* C15: the calibration table is read-only for the whole run: after any
\* sequence of compute_scale calls, with matching image names or not, every
\* row of the caller's table equals the row that was loaded, stored image
\* name included.
C15_ScaleTableReadOnly ==
    /\ Len(rc_scale_data) = Len(rc_loaded)
    /\ \A k \in 1..Len(rc_loaded) : rc_scale_data[k] = rc_loaded[k]

=============================================================================
